---- MODULE Spec2Model ----
(***************************************************************************)
(* Model of the mask-application cache of the Narrator bot:               *)
(* AppliedMaskManager (src/extensions/masks/mask_apply.py) over the        *)
(* applied_masks table (src/data/sql/ormclasses.py).                       *)
(*                                                                         *)
(* Coroutines are tasks; a task runs one manager call at a time and is     *)
(* interleaved with the other tasks at its awaits (store accesses and      *)
(* waits for the asyncio.Lock).                                            *)
(*                                                                         *)
(* Also modelled: MessageCache, the channel tree functions of              *)
(* src/util/channel_hierarchy.py, and the on_message listener of the       *)
(* Masks cog (src/extensions/masks/__init__.py).                           *)
(***************************************************************************)
EXTENDS Integers, Sequences, FiniteSets, TLC

\* ------------------------------------------------------------------ bounds
\* Number of manager calls issued in one behaviour.
MaxOps == 2
\* Number of AppliedMaskManager objects constructed in one behaviour.
MaxManagers == 2
\* Number of MessageCache calls and edit/delete requests in one behaviour.
MaxCalls == 3
\* The last reading of the loop's clock.
MaxTime == 3
\* The interpreter's recursion limit: how many generators may be nested.
RecursionLimit == 6

\* ------------------------------------------------------- the modelled world
Tasks == {"t1", "t2"}
Owners == {42}
\* The guild (hierarchy root) and one channel of each level below it:
\* Guild > CategoryChannel > TextChannel > Thread.
Guild == 1
Category == 100
TextChannel == 101
Thread == 1010
Channels == {Category, TextChannel, Thread}
Masks == {1, 2}
Parent ==
    [c \in Channels |-> IF c = Thread THEN TextChannel ELSE IF c = TextChannel THEN Category ELSE Guild]

\* The other kinds of channel of the guild, a second thread, and a channel
\* that is no guild channel at all.
ForumChannel == 102
VoiceChannel == 103
StageChannel == 104
Post == 1020
DMChannel == 7
Nodes ==
    {Guild, Category, TextChannel, ForumChannel, VoiceChannel, StageChannel, Thread, Post, DMChannel}

\* The relayed messages edit and delete requests are about, and the members
\* of the guild.
WebhookMessages == {"m1", "m2"}
Members == {"alice", "bob"}
\* CACHE_LIFETIME_MINS, in steps of the clock.
Lifetime == 2

\* Python's None, the exceptions a call can end with, and "no value yet".
None == [none |-> TRUE]
KeyError == [error |-> "KeyError"]
IntegrityError == [error |-> "IntegrityError"]
\* What the database layer raises when a statement cannot be carried out.
StoreError == [error |-> "StoreError"]
RuntimeError == [error |-> "RuntimeError"]
TypeError == [error |-> "TypeError"]
RecursionError == [error |-> "RecursionError"]
\* What next() raises on a generator that has returned.
StopIteration == [error |-> "StopIteration"]
\* A call that returned value v.
Returned(v) == [value |-> v]
NoRet == [pending |-> TRUE]
NoOp == [op |-> "none"]
Free == "free"

\* class AppliedMask: one row of applied_masks.
AppliedMask(mask, channel, guild, owner, recursive) ==
    [mask_id |-> mask, channel_id |-> channel, guild_id |-> guild,
     owner_id |-> owner, recursive |-> recursive]

Rows == {AppliedMask(m, c, Guild, o, r) : m \in Masks, c \in Channels, o \in Owners, r \in BOOLEAN}

\* class _AppliedMaskKey
_AppliedMaskKey(owner_id, channel_id) == <<owner_id, channel_id>>

Keys == {_AppliedMaskKey(o, c) : o \in Owners, c \in Channels}

KeyOf(row) == _AppliedMaskKey(row.owner_id, row.channel_id)

RowsAt(table, key) == {row \in table : KeyOf(row) = key}

\* The primary key (owner_id, channel_id) of applied_masks.
PrimaryKeyHolds(table) == \A key \in Keys : Cardinality(RowsAt(table, key)) <= 1

\* ------------------------------------------------------------- the store
\* AppliedMask.get: session.get(AppliedMask, (owner, channel)).
StoreGet(table, key) ==
    IF RowsAt(table, key) = {} THEN None ELSE CHOOSE row \in RowsAt(table, key) : TRUE

\* An INSERT that never checks the primary key.
InsertAlways(table, obj) == FALSE

\* The INSERT of AppliedMask.new is refused when the primary key is taken.
InsertRefused(table, obj) == RowsAt(table, KeyOf(obj)) # {}

\* A delete that never reaches the table.
DeleteNothing(table, obj) == table

\* AppliedMask.delete: DELETE by primary key.
StoreDelete(table, obj) == table \ RowsAt(table, KeyOf(obj))

\* ------------------------------------------------------------- the cache
\* A _store that drops the entry instead of writing it.
StoreForgets(cache, obj, key) == cache

\* AppliedMaskManager._store
_store(cache, obj, key) ==
    [k \in DOMAIN cache \cup {key} |-> IF k = key THEN obj ELSE cache[k]]

\* A _remove that leaves the entry as it was.
RemoveKeepsEntry(cache, key) == cache

\* A _remove that takes the key out of the cache.
RemovePopsEntry(cache, key) == [k \in DOMAIN cache \ {key} |-> cache[k]]

\* AppliedMaskManager._remove on a cached key: "self._cache[key] = None".
_remove(cache, key) == _store(cache, None, key)

\* cache.clear()
EmptyCache == [k \in {} |-> None]

\* The cache as a completed fetch_all leaves it when the table is rows.
Repopulate(rows) == [k \in {KeyOf(row) : row \in rows} |-> StoreGet(rows, k)]

\* The loop of fetch_all: "self._store(app, app.owner_id, app.channel_id)" for
\* every scanned row, on top of what the cache holds.
StoreEach(cache, rows) ==
    [k \in DOMAIN cache \cup {KeyOf(row) : row \in rows} |->
        IF RowsAt(rows, k) # {} THEN StoreGet(rows, k) ELSE cache[k]]

\* --------------------------------------------------------- the hierarchy
RECURSIVE ParentChain(_)
ParentChain(node) ==
    IF node = Guild THEN <<>> ELSE <<Parent[node]>> \o ParentChain(Parent[node])

\* get_all_parents(channel, include_this, include_root): nearest ancestor first.
get_all_parents(channel, include_this, include_root) ==
    LET chain == ParentChain(channel)
        up == IF include_root THEN chain ELSE SubSeq(chain, 1, Len(chain) - 1)
    IN  IF include_this THEN <<channel>> \o up ELSE up

\* A direct binding that only counts when it is recursive.
DirectNeedsRecursive(direct) == direct # None /\ direct.recursive

\* hierarchical, line 195: "if direct is not None: return direct".
DirectWins(direct) == direct # None

\* A walk that stops at the first ancestor that has any binding.
PassedOverOnlyIfNone(app) == app = None

\* A walk with the recursive flag read the wrong way round.
PassedOverIfRecursive(app) == app = None \/ app.recursive

\* hierarchical, line 206: "if app is None or not app.recursive: continue".
PassedOver(app) == app = None \/ ~app.recursive

\* remove, line 176: "if app is None: raise KeyError".
NoSuchApplication(app) == app = None

\* ----------------------------------------------------------------- state
VARIABLES
    store,      \* the rows of table applied_masks
    _cache,     \* AppliedMaskManager._cache
    _lock,      \* AppliedMaskManager._lock: Free or the task holding it
    active,     \* the tasks that issue calls
    scope,      \* the channels the calls are about
    op,         \* per task: the manager method it was called with
    arg,        \* per task: the arguments of that call
    pc,         \* per task: its position in the method
    frame,      \* per task: the locals of the running method
    ret,        \* per task: what the finished call returned or raised
    prev,       \* per task: the call it finished before the current one
    store0,     \* per task: the table when the current call started
    cache0,     \* per task: the cache when the current call started
    warm,       \* per key: what may_fetch last returned, until the next
                \* fetch_all, set or remove is called
    nops,       \* number of calls issued so far
    deleted,    \* the masks removed with Mask.delete
    \* _SingularMeta and the AppliedMaskManager objects it has constructed
    __object_counts,    \* _SingularMeta.__object_counts[AppliedMaskManager]
    critical,           \* number of LOGGER.critical records written
    managers,           \* the constructed instances, each with _cache and _lock
    \* MessageCache, the event loop's timers and the relayed messages
    _message_lifetime,  \* MessageCache._message_lifetime: None or seconds
    _messages,          \* MessageCache._messages: message -> member
    _call_tasks,        \* MessageCache._call_tasks: message -> TimerHandle
    timers,             \* the loop's scheduled calls that have not yet run
    now,                \* the loop's clock
    born,               \* per cached message: when the push that made it ran
    last,               \* the MessageCache call that ran last, with its outcome
    ncalls,             \* number of MessageCache calls and requests so far
    request,            \* the running edit/delete interaction
    webhook,            \* per relayed message: sent, edited or deleted
    \* util/channel_hierarchy.py: the guild's objects and one call
    server,             \* the channels and threads as the library holds them
    traversal,          \* the function that was called, with its arguments
    generator,          \* the generator the call made: its nested frames
    yielded,            \* what the generator has yielded so far
    answer,             \* what the call returned or raised
    \* Masks.handle_mask_messages
    listener            \* the handler's message, position and steps so far

\* The AppliedMaskManager of the Masks cog with its table and callers.
managerVars ==
    <<store, _cache, _lock, active, scope, op, arg, pc, frame, ret, prev, store0, cache0, warm, nops>>

ctorVars == <<__object_counts, critical, managers>>

messageVars ==
    <<_message_lifetime, _messages, _call_tasks, timers, now, born, last, ncalls, request, webhook>>

hierarchyVars == <<server, traversal, generator, yielded, answer>>

\* What no method of the AppliedMaskManager touches.
besides == <<deleted, ctorVars, messageVars, hierarchyVars, listener>>

vars == <<managerVars, besides>>

NoArg == [user |-> 0, channel |-> 0, mask |-> 0, recursive |-> FALSE]

\* Locals: the channel being looked up, the ancestors still to visit, whether
\* the lookup is the direct one, app/obj, and fetch_all's all_applications;
\* reads counts the store reads the call has made, gone holds the masks that
\* were deleted before the call began.
NoFrame ==
    [cur |-> 0, walk |-> <<>>, direct |-> TRUE, app |-> None, scanned |-> {}, reads |-> 0, gone |-> {}]

ArgKey(t) == _AppliedMaskKey(arg[t].user, arg[t].channel)

\* The key of the lookup a task is in (hierarchical looks up several).
CurKey(t) == _AppliedMaskKey(arg[t].user, frame[t].cur)

\* No AppliedMaskManager constructed yet: __object_counts is an empty dict,
\* which setdefault(cls, 0) reads as 0.
NoManagers ==
    /\ __object_counts = 0
    /\ critical = 0
    /\ managers = <<>>

\* dict(): no message cached, no TimerHandle kept.
NoMessages == [message \in {} |-> None]

NoCall == [op |-> "none"]

NoRequest == [stage |-> "none"]

\* ------------------------------------------- util/channel_hierarchy.py
\* type(channel) of every object.
TypeOf ==
    [n \in Nodes |->
        CASE n = Guild -> "Guild"
          [] n = Category -> "CategoryChannel"
          [] n = TextChannel -> "TextChannel"
          [] n = ForumChannel -> "ForumChannel"
          [] n = VoiceChannel -> "VoiceChannel"
          [] n = StageChannel -> "StageChannel"
          [] n \in {Thread, Post} -> "Thread"
          [] OTHER -> "DMChannel"]

Attribute(name) == [attribute |-> name]

\* _SUBCHANNEL_LUT: the attribute that holds the subchannels, per type.
_SUBCHANNEL_LUT ==
    [type \in {"Guild", "CategoryChannel", "TextChannel", "ForumChannel",
               "VoiceChannel", "StageChannel", "Thread"} |->
        CASE type \in {"Guild", "CategoryChannel"} -> Attribute("channels")
          [] type \in {"TextChannel", "ForumChannel"} -> Attribute("threads")
          [] OTHER -> None]

Reverse(seq) == [i \in 1..Len(seq) |-> seq[Len(seq) + 1 - i]]

\* The guild's channels and threads in the order the library holds them.
GuildChannels == <<Category, TextChannel, ForumChannel, VoiceChannel, StageChannel>>
GuildThreads == <<Thread, Post>>

\* The guilds of the model: each channel lies in the category or directly
\* in the guild (category_id 0), each thread lies in a text or forum channel.
Servers ==
    {[channels |-> channels, threads |-> GuildThreads,
      category_id |-> category_id, parent_id |-> parent_id] :
        channels \in {GuildChannels, Reverse(GuildChannels)},
        category_id \in {f \in [{Category, TextChannel, ForumChannel, VoiceChannel, StageChannel}
                                  -> {0, Category}] : f[Category] = 0 /\ f[StageChannel] = 0},
        parent_id \in {f \in [{Thread, Post} -> {TextChannel, ForumChannel}] :
                          f[Post] = ForumChannel}}

\* getattr(channel, attribute) on the library's objects: Guild.channels is
\* every channel of the guild, the categories and the channels inside them
\* alike; CategoryChannel.channels is the channels of the category;
\* TextChannel.threads and ForumChannel.threads are the channel's threads.
getattr(g, channel, attribute) ==
    IF attribute = "channels"
    THEN IF TypeOf[channel] = "Guild"
         THEN g.channels
         ELSE SelectSeq(g.channels, LAMBDA c : g.category_id[c] = channel)
    ELSE SelectSeq(g.threads, LAMBDA thread : g.parent_id[thread] = channel)

\* get_subchannels(channel)
get_subchannels(g, channel) ==
    IF TypeOf[channel] \notin DOMAIN _SUBCHANNEL_LUT
    THEN TypeError
    ELSE LET attribute == _SUBCHANNEL_LUT[TypeOf[channel]]
         IN  IF attribute = None
             THEN [list |-> <<>>]
             ELSE [list |-> getattr(g, channel, attribute.attribute)]

\* A generator function that was entered for a channel: its subchannels,
\* how many of them it has yielded (i) and how many iterations of its
\* "for sub in subchannels" it has entered (j).
Frame(g, channel) ==
    [channel |-> channel, subchannels |-> get_subchannels(g, channel).list, i |-> 0, j |-> 0]

\* A generator object before its first next().
NewGenerator(channel) == [started |-> FALSE, channel |-> channel, frames |-> <<>>]

\* _get_all_subchannels_depth from where the innermost generator stands at
\* its "for sub in subchannels": yield the next sub, or return to the
\* generator that delegated to it.
RECURSIVE DepthResume(_)
DepthResume(frames) ==
    IF frames = <<>>
    THEN [frames |-> <<>>, out |-> StopIteration]
    ELSE LET n == Len(frames)
             f == frames[n]
         IN  IF f.i < Len(f.subchannels)
             THEN [frames |-> [frames EXCEPT ![n].i = f.i + 1],
                   out |-> Returned(f.subchannels[f.i + 1])]
             ELSE DepthResume(SubSeq(frames, 1, n - 1))

\* One next() on _get_all_subchannels_depth(channel): after "yield sub"
\* comes "yield from _get_all_subchannels_depth(sub)".
_get_all_subchannels_depth(g, gen) ==
    IF ~gen.started
    THEN IF get_subchannels(g, gen.channel) = TypeError
         THEN [frames |-> <<>>, out |-> TypeError]
         ELSE DepthResume(<<Frame(g, gen.channel)>>)
    ELSE LET n == Len(gen.frames)
             f == gen.frames[n]
         IN  IF n >= RecursionLimit
             THEN [frames |-> <<>>, out |-> RecursionError]
             ELSE DepthResume(Append(gen.frames, Frame(g, f.subchannels[f.i])))

\* _get_all_subchannels_breadth from where the innermost generator stands:
\* "yield from subchannels", then for every sub
\* "yield from _get_all_subchannels_breadth(channel)".
RECURSIVE BreadthResume(_, _)
BreadthResume(g, frames) ==
    IF frames = <<>>
    THEN [frames |-> <<>>, out |-> StopIteration]
    ELSE LET n == Len(frames)
             f == frames[n]
         IN  IF f.i < Len(f.subchannels)
             THEN [frames |-> [frames EXCEPT ![n].i = f.i + 1],
                   out |-> Returned(f.subchannels[f.i + 1])]
             ELSE IF f.j < Len(f.subchannels)
                  THEN IF n >= RecursionLimit
                       THEN [frames |-> <<>>, out |-> RecursionError]
                       ELSE BreadthResume(g, Append([frames EXCEPT ![n].j = f.j + 1],
                                                    Frame(g, f.channel)))
                  ELSE BreadthResume(g, SubSeq(frames, 1, n - 1))

\* One next() on _get_all_subchannels_breadth(channel).
_get_all_subchannels_breadth(g, gen) ==
    IF ~gen.started
    THEN IF get_subchannels(g, gen.channel) = TypeError
         THEN [frames |-> <<>>, out |-> TypeError]
         ELSE BreadthResume(g, <<Frame(g, gen.channel)>>)
    ELSE BreadthResume(g, gen.frames)

NoTraversal == [fn |-> "none", channel |-> 0, parent |-> 0, breadth_first |-> FALSE]

\* No function of util/channel_hierarchy.py is called.
NoHierarchy ==
    /\ server = CHOOSE g \in Servers : g.channels = GuildChannels
    /\ traversal = NoTraversal
    /\ generator = NewGenerator(0)
    /\ yielded = <<>>
    /\ answer = NoRet

\* No message has reached the listener.
NoMessage == [pc |-> "idle", steps |-> <<>>]

\* MessageCache.__init__(lifetime=...): empty dictionaries; nothing is
\* scheduled on the loop and every message is as it was sent.
NewMessageCache(lifetime) ==
    /\ _message_lifetime = lifetime
    /\ _messages = NoMessages
    /\ _call_tasks = NoMessages
    /\ timers = {}
    /\ now = 0
    /\ born = NoMessages
    /\ last = NoCall
    /\ ncalls = 0
    /\ request = NoRequest
    /\ webhook = [message \in WebhookMessages |-> "sent"]

\* The table outlives the process, so a run starts with any table the primary
\* key allows; the cache starts empty (__init__) or as cog_load's fetch_all
\* left it.
InitManager ==
    /\ store \in {table \in SUBSET Rows :
                    /\ PrimaryKeyHolds(table)
                    /\ \A row \in table : row.channel_id \in scope}
    /\ _cache \in {EmptyCache, Repopulate(store)}
    /\ _lock = Free
    /\ op = [t \in Tasks |-> "none"]
    /\ arg = [t \in Tasks |-> NoArg]
    /\ pc = [t \in Tasks |-> "idle"]
    /\ frame = [t \in Tasks |-> NoFrame]
    /\ ret = [t \in Tasks |-> NoRet]
    /\ prev = [t \in Tasks |-> NoOp]
    /\ store0 = [t \in Tasks |-> {}]
    /\ cache0 = [t \in Tasks |-> EmptyCache]
    /\ warm = [k \in Keys |-> NoRet]
    /\ nops = 0
    /\ deleted = {}
    /\ NoManagers

\* The manager next to a MessageCache that is not used.
InitCommon == InitManager /\ NewMessageCache(None) /\ NoHierarchy /\ listener = NoMessage

\* Calls arrive from concurrently running command handlers.
Init == active = Tasks /\ scope = {TextChannel} /\ InitCommon

\* One caller that awaits each call before it issues the next.
InitSeq == active = {"t1"} /\ scope = Channels /\ InitCommon

\* ------------------------------------------------------------- the calls
FirstPc(method) ==
    CASE method = "fetch_all" -> "fa_scan"
      [] method = "fetch" -> "fetch_lock"
      [] method = "get" -> "get"
      [] method = "may_fetch" -> "mf_get"
      [] method = "set" -> "rm_lock"
      [] method = "remove" -> "rm_lock"
      [] method = "hierarchical" -> "mf_get"

Call(t, method, a) ==
    /\ t \in active
    /\ pc[t] \in {"idle", "done"}
    /\ nops < MaxOps
    /\ nops' = nops + 1
    /\ op' = [op EXCEPT ![t] = method]
    /\ arg' = [arg EXCEPT ![t] = a]
    /\ pc' = [pc EXCEPT ![t] = FirstPc(method)]
    /\ frame' = [frame EXCEPT ![t] = [NoFrame EXCEPT !.cur = a.channel, !.gone = deleted]]
    /\ ret' = [ret EXCEPT ![t] = NoRet]
    /\ prev' = [prev EXCEPT ![t] =
                  IF pc[t] = "done" THEN [op |-> op[t], arg |-> arg[t], ret |-> ret[t]] ELSE NoOp]
    /\ store0' = [store0 EXCEPT ![t] = store]
    /\ cache0' = [cache0 EXCEPT ![t] = _cache]
    /\ warm' = IF method \in {"fetch_all", "set", "remove"} THEN [k \in Keys |-> NoRet] ELSE warm
    /\ UNCHANGED <<store, _cache, _lock, active, scope, besides>>

KeyArg(u, c) == [NoArg EXCEPT !.user = u, !.channel = c]

CallFetchAll(t) == Call(t, "fetch_all", NoArg)

CallFetch(t) == \E u \in Owners, c \in scope : Call(t, "fetch", KeyArg(u, c))

CallGet(t) == \E u \in Owners, c \in scope : Call(t, "get", KeyArg(u, c))

CallMayFetch(t) == \E u \in Owners, c \in scope : Call(t, "may_fetch", KeyArg(u, c))

\* apply_mask gets its mask from the masks table: a deleted one is not found.
CallSet(t) ==
    \E u \in Owners, c \in scope, m \in Masks \ deleted, r \in BOOLEAN :
        Call(t, "set", [user |-> u, channel |-> c, mask |-> m, recursive |-> r])

CallRemove(t) == \E u \in Owners, c \in scope : Call(t, "remove", KeyArg(u, c))

CallHierarchical(t) == \E u \in Owners, c \in scope : Call(t, "hierarchical", KeyArg(u, c))

\* A call ends: it returns value v or raises it.
Finish(t, v) ==
    /\ pc' = [pc EXCEPT ![t] = "done"]
    /\ ret' = [ret EXCEPT ![t] = v]

\* ------------------------------------------------- get, fetch, may_fetch
\* A get that asks the store when the key is not cached.
GetReadsStore(t) ==
    /\ pc[t] = "get"
    /\ _lock = Free
    /\ Finish(t, IF ArgKey(t) \in DOMAIN _cache THEN _cache[ArgKey(t)] ELSE StoreGet(store, ArgKey(t)))
    /\ UNCHANGED <<store, _cache, _lock, active, scope, op, arg, frame, prev, store0, cache0, warm, nops, besides>>

\* A get that does not wait for the lock.
GetUnlocked(t) ==
    /\ pc[t] = "get"
    /\ Finish(t, IF ArgKey(t) \in DOMAIN _cache THEN _cache[ArgKey(t)] ELSE KeyError)
    /\ UNCHANGED <<store, _cache, _lock, active, scope, op, arg, frame, prev, store0, cache0, warm, nops, besides>>

\* get: "async with self._lock: return self._retrieve(user, channel)".
\* Nothing is awaited while the lock is held, so it is one step.
Get(t) ==
    /\ pc[t] = "get"
    /\ _lock = Free
    /\ Finish(t, IF ArgKey(t) \in DOMAIN _cache THEN _cache[ArgKey(t)] ELSE KeyError)
    /\ UNCHANGED <<store, _cache, _lock, active, scope, op, arg, frame, prev, store0, cache0, warm, nops, besides>>

\* What the caller of may_fetch does with the value v it got: may_fetch and
\* fetch return it; hierarchical returns it or goes on to the next ancestor.
AfterMayFetch(t, v) ==
    /\ warm' = IF op[t] = "fetch" THEN warm ELSE [warm EXCEPT ![CurKey(t)] = v]
    /\ IF op[t] # "hierarchical"
       THEN Finish(t, v) /\ UNCHANGED frame
       ELSE LET f == frame[t]
                found == IF f.direct THEN DirectWins(v) ELSE ~PassedOver(v)
                rest == IF f.direct THEN get_all_parents(arg[t].channel, FALSE, FALSE)
                        ELSE Tail(f.walk)
            IN  IF found THEN Finish(t, v) /\ UNCHANGED frame
                ELSE IF rest = <<>> THEN Finish(t, None) /\ UNCHANGED frame
                ELSE /\ pc' = [pc EXCEPT ![t] = "mf_get"]
                     /\ frame' = [frame EXCEPT ![t] =
                                    [f EXCEPT !.cur = Head(rest), !.walk = rest, !.direct = FALSE]]
                     /\ UNCHANGED ret

\* A may_fetch that takes a cached None for a miss and fetches again.
MayFetchRefetchesNone(t) ==
    /\ pc[t] = "mf_get"
    /\ _lock = Free
    /\ IF CurKey(t) \in DOMAIN _cache /\ _cache[CurKey(t)] # None
       THEN AfterMayFetch(t, _cache[CurKey(t)])
       ELSE pc' = [pc EXCEPT ![t] = "fetch_lock"] /\ UNCHANGED <<ret, frame, warm>>
    /\ UNCHANGED <<store, _cache, _lock, active, scope, op, arg, prev, store0, cache0, nops, besides>>

\* may_fetch: the get attempt; on KeyError it goes on to fetch.
MayFetchGet(t) ==
    /\ pc[t] = "mf_get"
    /\ _lock = Free
    /\ IF CurKey(t) \in DOMAIN _cache
       THEN AfterMayFetch(t, _cache[CurKey(t)])
       ELSE pc' = [pc EXCEPT ![t] = "fetch_lock"] /\ UNCHANGED <<ret, frame, warm>>
    /\ UNCHANGED <<store, _cache, _lock, active, scope, op, arg, prev, store0, cache0, nops, besides>>

\* fetch: "async with self._lock".
FetchAcquire(t) ==
    /\ pc[t] = "fetch_lock"
    /\ _lock = Free
    /\ _lock' = t
    /\ pc' = [pc EXCEPT ![t] = "fetch_read"]
    /\ UNCHANGED <<store, _cache, active, scope, op, arg, frame, ret, prev, store0, cache0, warm, nops, besides>>

\* A fetch that answers from the cache when the key is cached.
FetchReadsCacheFirst(t) ==
    /\ pc[t] = "fetch_read"
    /\ frame' = IF CurKey(t) \in DOMAIN _cache
                THEN [frame EXCEPT ![t].app = _cache[CurKey(t)]]
                ELSE [frame EXCEPT ![t].app = StoreGet(store, CurKey(t)), ![t].reads = @ + 1]
    /\ pc' = [pc EXCEPT ![t] = "fetch_store"]
    /\ UNCHANGED <<store, _cache, _lock, active, scope, op, arg, ret, prev, store0, cache0, warm, nops, besides>>

\* fetch: "application = await AppliedMask.get(user, channel)".
FetchRead(t) ==
    /\ pc[t] = "fetch_read"
    /\ frame' = [frame EXCEPT ![t].app = StoreGet(store, CurKey(t)), ![t].reads = @ + 1]
    /\ pc' = [pc EXCEPT ![t] = "fetch_store"]
    /\ UNCHANGED <<store, _cache, _lock, active, scope, op, arg, ret, prev, store0, cache0, warm, nops, besides>>

\* fetch: "self._store(application, user, channel)", release, return.
FetchStore(t) ==
    /\ pc[t] = "fetch_store"
    /\ _cache' = _store(_cache, frame[t].app, CurKey(t))
    /\ _lock' = Free
    /\ AfterMayFetch(t, frame[t].app)
    /\ UNCHANGED <<store, active, scope, op, arg, prev, store0, cache0, nops, besides>>

\* ------------------------------------------------------------ remove, set
\* A remove that reports a missing application by returning None.
RemoveSwallowsKeyError(t, v) ==
    IF op[t] = "set"
    THEN pc' = [pc EXCEPT ![t] = "set_new"] /\ UNCHANGED ret
    ELSE Finish(t, IF v = KeyError THEN None ELSE v)

\* How a remove ends: remove itself returns or raises v; inside set the
\* KeyError is swallowed and the result dropped, and set goes on to insert.
AfterRemove(t, v) ==
    IF op[t] = "set"
    THEN pc' = [pc EXCEPT ![t] = "set_new"] /\ UNCHANGED ret
    ELSE Finish(t, v)

\* A remove whose check-then-delete runs without the lock.
RemoveAcquireUnlocked(t) ==
    /\ pc[t] = "rm_lock"
    /\ IF ArgKey(t) \in DOMAIN _cache
       THEN /\ _cache' = _remove(_cache, ArgKey(t))
            /\ IF NoSuchApplication(_cache[ArgKey(t)])
               THEN AfterRemove(t, KeyError) /\ UNCHANGED frame
               ELSE /\ frame' = [frame EXCEPT ![t].app = _cache[ArgKey(t)]]
                    /\ pc' = [pc EXCEPT ![t] = "rm_delete"]
                    /\ UNCHANGED ret
       ELSE /\ pc' = [pc EXCEPT ![t] = "rm_get"]
            /\ UNCHANGED <<_cache, frame, ret>>
    /\ UNCHANGED <<store, _lock, active, scope, op, arg, prev, store0, cache0, warm, nops, besides>>

\* remove: take the lock and try self._remove, which marks a cached key as
\* non-present and hands back the previous entry.
RemoveAcquire(t) ==
    /\ pc[t] = "rm_lock"
    /\ _lock = Free
    /\ IF ArgKey(t) \in DOMAIN _cache
       THEN /\ _cache' = _remove(_cache, ArgKey(t))
            /\ IF NoSuchApplication(_cache[ArgKey(t)])
               THEN AfterRemove(t, KeyError) /\ UNCHANGED <<_lock, frame>>
               ELSE /\ _lock' = t
                    /\ frame' = [frame EXCEPT ![t].app = _cache[ArgKey(t)]]
                    /\ pc' = [pc EXCEPT ![t] = "rm_delete"]
                    /\ UNCHANGED ret
       ELSE /\ _lock' = t
            /\ pc' = [pc EXCEPT ![t] = "rm_get"]
            /\ UNCHANGED <<_cache, frame, ret>>
    /\ UNCHANGED <<store, active, scope, op, arg, prev, store0, cache0, warm, nops, besides>>

\* A remove whose KeyError leaves the lock taken.
RemoveGetKeepsLock(t) ==
    /\ pc[t] = "rm_get"
    /\ LET app == StoreGet(store, ArgKey(t))
       IN  IF NoSuchApplication(app)
           THEN /\ AfterRemove(t, KeyError)
                /\ frame' = [frame EXCEPT ![t].reads = @ + 1]
                /\ UNCHANGED _lock
           ELSE /\ frame' = [frame EXCEPT ![t].app = app, ![t].reads = @ + 1]
                /\ pc' = [pc EXCEPT ![t] = "rm_delete"]
                /\ UNCHANGED <<_lock, ret>>
    /\ UNCHANGED <<store, _cache, active, scope, op, arg, prev, store0, cache0, warm, nops, besides>>

\* remove, key not cached: "app = await AppliedMask.get(user, channel)".
RemoveGet(t) ==
    /\ pc[t] = "rm_get"
    /\ LET app == StoreGet(store, ArgKey(t))
       IN  IF NoSuchApplication(app)
           THEN /\ AfterRemove(t, KeyError)
                /\ _lock' = Free
                /\ frame' = [frame EXCEPT ![t].reads = @ + 1]
           ELSE /\ frame' = [frame EXCEPT ![t].app = app, ![t].reads = @ + 1]
                /\ pc' = [pc EXCEPT ![t] = "rm_delete"]
                /\ UNCHANGED <<_lock, ret>>
    /\ UNCHANGED <<store, _cache, active, scope, op, arg, prev, store0, cache0, warm, nops, besides>>

\* remove: "await app.delete(); return app", releasing the lock.
RemoveDelete(t) ==
    /\ pc[t] = "rm_delete"
    /\ store' = StoreDelete(store, frame[t].app)
    /\ _lock' = Free
    /\ AfterRemove(t, frame[t].app)
    /\ UNCHANGED <<_cache, active, scope, op, arg, frame, prev, store0, cache0, warm, nops, besides>>

\* set: "obj = await AppliedMask.new(mask, user, channel, recursive)".
\* The lock is not held here.
SetNew(t) ==
    /\ pc[t] = "set_new"
    /\ LET obj == AppliedMask(arg[t].mask, arg[t].channel, Guild, arg[t].user, arg[t].recursive)
       IN  IF InsertRefused(store, obj)
           THEN Finish(t, IntegrityError) /\ UNCHANGED <<store, frame>>
           ELSE /\ store' = store \cup {obj}
                /\ frame' = [frame EXCEPT ![t].app = obj]
                /\ pc' = [pc EXCEPT ![t] = "set_store"]
                /\ UNCHANGED ret
    /\ UNCHANGED <<_cache, _lock, active, scope, op, arg, prev, store0, cache0, warm, nops, besides>>

\* set: "async with self._lock: self._store(obj, user.id, channel.id)".
SetStore(t) ==
    /\ pc[t] = "set_store"
    /\ _lock = Free
    /\ _cache' = _store(_cache, frame[t].app, ArgKey(t))
    /\ Finish(t, frame[t].app)
    /\ UNCHANGED <<store, _lock, active, scope, op, arg, frame, prev, store0, cache0, warm, nops, besides>>

\* -------------------------------------------------------------- fetch_all
\* "all_applications = await AppliedMask.get_all(session=session)": the
\* query is executed before the lock is taken.
FetchAllScan(t) ==
    /\ pc[t] = "fa_scan"
    /\ frame' = [frame EXCEPT ![t].scanned = store, ![t].reads = @ + 1]
    /\ pc' = [pc EXCEPT ![t] = "fa_lock"]
    /\ UNCHANGED <<store, _cache, _lock, active, scope, op, arg, ret, prev, store0, cache0, warm, nops, besides>>

\* A fetch_all that takes the lock but does not clear the cache.
FetchAllKeepsCache(t) ==
    /\ pc[t] = "fa_lock"
    /\ _lock = Free
    /\ _lock' = t
    /\ pc' = [pc EXCEPT ![t] = "fa_fill"]
    /\ UNCHANGED <<store, _cache, active, scope, op, arg, frame, ret, prev, store0, cache0, warm, nops, besides>>

\* "async with self._lock: self._cache.clear()".
FetchAllClear(t) ==
    /\ pc[t] = "fa_lock"
    /\ _lock = Free
    /\ _lock' = t
    /\ _cache' = EmptyCache
    /\ pc' = [pc EXCEPT ![t] = "fa_fill"]
    /\ UNCHANGED <<store, active, scope, op, arg, frame, ret, prev, store0, cache0, warm, nops, besides>>

\* "async for app in all_applications: ... self._store(app, ...)", then the
\* lock is released and the list returned.
FetchAllFill(t) ==
    /\ pc[t] = "fa_fill"
    /\ _cache' = StoreEach(_cache, frame[t].scanned)
    /\ _lock' = Free
    /\ Finish(t, [list |-> frame[t].scanned])
    /\ UNCHANGED <<store, active, scope, op, arg, frame, prev, store0, cache0, warm, nops, besides>>

\* ------------------------------------------------------- failing writes
\* remove: "await app.delete()" raises. The exception leaves the
\* "async with self._lock" block, which releases the lock, and then remove;
\* inside set only KeyError is caught, so it leaves set as well.
RemoveDeleteFails(t) ==
    /\ pc[t] = "rm_delete"
    /\ _lock' = Free
    /\ Finish(t, StoreError)
    /\ UNCHANGED <<store, _cache, active, scope, op, arg, frame, prev, store0, cache0, warm, nops, besides>>

\* set: "obj = await AppliedMask.new(...)" raises; the lock is not held.
SetNewFails(t) ==
    /\ pc[t] = "set_new"
    /\ Finish(t, StoreError)
    /\ UNCHANGED <<store, _cache, _lock, active, scope, op, arg, frame, prev, store0, cache0, warm, nops, besides>>

\* ------------------------------------------------------------ Mask.delete
\* The rows of a table that reference none of the masks.
WithoutMasks(table, masks) == {row \in table : row.mask_id \notin masks}

\* mask_remove: "await mask.delete()". The relationship Mask._applications
\* cascades the delete to the applied_masks rows of the mask; the
\* AppliedMaskManager takes no part in it.
MaskDelete(mask) ==
    /\ mask \notin deleted
    /\ deleted' = deleted \cup {mask}
    /\ store' = WithoutMasks(store, {mask})
    /\ UNCHANGED <<_cache, _lock, active, scope, op, arg, pc, frame, ret, prev, store0, cache0, warm, nops>>
    /\ UNCHANGED <<ctorVars, messageVars, hierarchyVars, listener>>

\* ---------------------------------------------------------- _SingularMeta
\* AppliedMaskManager.__init__: an empty cache and a Lock of its own.
NewManager == [_cache |-> EmptyCache, _lock |-> Free]

\* A metaclass that hands out the first instance again (util.singleton).
SingletonCall(instances) == IF instances = <<>> THEN <<NewManager>> ELSE instances

\* _SingularMeta.__call__ ends in "return super().__call__(*args, **kwargs)":
\* every call constructs another instance.
SingularCall(instances) == Append(instances, NewManager)

\* AppliedMaskManager(): the count goes up, a second or later construction
\* is logged with LOGGER.critical, and the object is constructed all the same.
Construct ==
    /\ Len(managers) < MaxManagers
    /\ __object_counts' = __object_counts + 1
    /\ critical' = IF __object_counts' > 1 THEN critical + 1 ELSE critical
    /\ managers' = SingularCall(managers)
    /\ UNCHANGED <<managerVars, deleted, hierarchyVars, listener, messageVars>>

\* The instances whose lock task t holds.
Holding(t) == {i \in DOMAIN managers : managers[i]._lock = t}

\* fetch on instance i: "async with self._lock" of that instance.
InstanceFetchAcquire(t, i) ==
    /\ i \in DOMAIN managers
    /\ Holding(t) = {}
    /\ managers[i]._lock = Free
    /\ managers' = [managers EXCEPT ![i]._lock = t]
    /\ UNCHANGED <<managerVars, deleted, hierarchyVars, listener, __object_counts, critical, messageVars>>

\* fetch on instance i: the store read, self._store into the cache of that
\* instance, and the release of its lock.
InstanceFetchStore(t, i, key) ==
    /\ i \in DOMAIN managers
    /\ key[2] \in scope
    /\ managers[i]._lock = t
    /\ managers' = [managers EXCEPT ![i]._cache = _store(@, StoreGet(store, key), key),
                                    ![i]._lock = Free]
    /\ UNCHANGED <<managerVars, deleted, hierarchyVars, listener, __object_counts, critical, messageVars>>

\* ------------------------------------------------------------ MessageCache
\* An assignment that is lost.
DictKeeps(d, k, v) == d

\* "d[k] = v"
DictSet(d, k, v) == [x \in DOMAIN d \cup {k} |-> IF x = k THEN v ELSE d[x]]

\* "d.pop(k, None)", the dictionary it leaves.
DictPop(d, k) == [x \in DOMAIN d \ {k} |-> d[x]]

\* A push that never finds the message cached.
NeverCached(messages, message) == FALSE

\* push, line 272: "if message in self._messages".
AlreadyCached(messages, message) == message \in DOMAIN messages

\* A retrieval that answers None for a message that is not cached.
RetrieveOrNone(messages, message) ==
    IF message \in DOMAIN messages THEN Returned(messages[message]) ELSE None

\* "self._messages.pop(message)" and "self._messages[key]": the value, or
\* KeyError for a message that is not cached.
Retrieve(messages, message) ==
    IF message \in DOMAIN messages THEN Returned(messages[message]) ELSE KeyError

\* The record of a MessageCache call: what ran, its outcome, the state it
\* found and the call that ran before it.
Ran(method, message, owner, result) ==
    [op |-> method, message |-> message, owner |-> owner, result |-> result, call |-> ncalls,
     messages0 |-> _messages, call_tasks0 |-> _call_tasks, timers0 |-> timers,
     before |-> IF last = NoCall THEN NoCall
                ELSE [op |-> last.op, message |-> last.message, result |-> last.result]]

\* A call is issued by a handler of the cog.
Issue ==
    /\ ncalls < MaxCalls
    /\ ncalls' = ncalls + 1

\* MessageCache.push(message, owner). With a lifetime, loop.call_later
\* schedules self.pop(message) and the TimerHandle is kept in _call_tasks.
PushBody(message, owner) ==
    /\ Issue
    /\ _message_lifetime # None => now + _message_lifetime.seconds <= MaxTime
    /\ IF AlreadyCached(_messages, message)
       THEN /\ last' = Ran("push", message, owner, RuntimeError)
            /\ UNCHANGED <<_messages, _call_tasks, timers, born>>
       ELSE /\ last' = Ran("push", message, owner, None)
            /\ _messages' = DictSet(_messages, message, owner)
            /\ born' = DictSet(born, message, now)
            /\ IF _message_lifetime # None
               THEN /\ timers' = timers \cup {[id |-> ncalls', message |-> message,
                                                when |-> now + _message_lifetime.seconds]}
                    /\ _call_tasks' = DictSet(_call_tasks, message, ncalls')
               ELSE UNCHANGED <<timers, _call_tasks>>

\* push, called by a handler of the cog.
Push(message, owner) ==
    /\ PushBody(message, owner)
    /\ UNCHANGED <<managerVars, deleted, hierarchyVars, listener, ctorVars, _message_lifetime, now, request, webhook>>

\* The body of MessageCache.pop: the TimerHandle is dropped from
\* _call_tasks (it is not cancelled), then the message is popped.
PopBody(message) ==
    /\ _call_tasks' = DictPop(_call_tasks, message)
    /\ _messages' = DictPop(_messages, message)
    /\ born' = DictPop(born, message)

\* MessageCache.pop(message), called by a handler.
Pop(message) ==
    /\ Issue
    /\ PopBody(message)
    /\ last' = Ran("pop", message, "nobody", Retrieve(_messages, message))
    /\ UNCHANGED <<managerVars, deleted, hierarchyVars, listener, ctorVars, _message_lifetime, timers, now, request, webhook>>

\* MessageCache.__getitem__(key)
Lookup(message) ==
    /\ Issue
    /\ last' = Ran("lookup", message, "nobody", Retrieve(_messages, message))
    /\ UNCHANGED <<managerVars, deleted, hierarchyVars, listener, ctorVars>>
    /\ UNCHANGED <<_message_lifetime, _messages, _call_tasks, timers, now, born, request, webhook>>

\* A timer whose callback does nothing.
TimerIdles(timer) ==
    /\ timer \in timers
    /\ timer.when <= now
    /\ timers' = timers \ {timer}
    /\ last' = Ran("timer", timer.message, "nobody", None)
    /\ UNCHANGED <<managerVars, deleted, hierarchyVars, listener, ctorVars>>
    /\ UNCHANGED <<_message_lifetime, _messages, _call_tasks, born, now, ncalls, request, webhook>>

\* The loop runs a scheduled call that has come due: self.pop(message). An
\* exception of the callback goes to the loop's exception handler.
TimerFires(timer) ==
    /\ timer \in timers
    /\ timer.when <= now
    /\ timers' = timers \ {timer}
    /\ PopBody(timer.message)
    /\ last' = Ran("timer", timer.message, "nobody", Retrieve(_messages, timer.message))
    /\ UNCHANGED <<managerVars, deleted, hierarchyVars, listener, ctorVars, _message_lifetime, now, ncalls, request, webhook>>

\* Time passes; a scheduled call runs when it is due.
Tick ==
    /\ now < MaxTime
    /\ \A timer \in timers : timer.when > now
    /\ now' = now + 1
    /\ UNCHANGED <<managerVars, deleted, hierarchyVars, listener, ctorVars>>
    /\ UNCHANGED <<_message_lifetime, _messages, _call_tasks, timers, born, last, ncalls, request, webhook>>

\* ------------------------------------------- editing a relayed message
\* A check that lets every member change a tracked message.
AnyoneAuthorised(user, member) == TRUE

\* _check_mask_message, line 471: "if interaction.user != member".
Authorised(user, member) == user = member

\* mask_message_edit / mask_message_delete begin with _check_mask_message:
\* the lookup in the MessageCache, then the comparison with the author. The
\* request records what the cache held for the message when it was checked.
RequestCheck(user, message, kind) ==
    /\ Issue
    /\ request.stage # "confirm"
    /\ request' =
          [stage |-> IF message \notin DOMAIN _messages THEN "rejected"
                     ELSE IF ~Authorised(user, _messages[message]) THEN "rejected"
                     ELSE "confirm",
           user |-> user, message |-> message, kind |-> kind,
           tracked |-> message \in DOMAIN _messages,
           author |-> IF message \in DOMAIN _messages THEN _messages[message] ELSE "nobody"]
    /\ UNCHANGED <<managerVars, deleted, hierarchyVars, listener, ctorVars>>
    /\ UNCHANGED <<_message_lifetime, _messages, _call_tasks, timers, now, born, last, webhook>>

\* The member closes the modal or declines the confirmation.
RequestCancel ==
    /\ request.stage = "confirm"
    /\ request' = [request EXCEPT !.stage = "cancelled"]
    /\ UNCHANGED <<managerVars, deleted, hierarchyVars, listener, ctorVars>>
    /\ UNCHANGED <<_message_lifetime, _messages, _call_tasks, timers, now, born, last, ncalls, webhook>>

\* "webhook_message = await self._webhook_message_from_message(message)" and
\* then webhook_message.edit(...) or webhook_message.delete(); fetching a
\* message that was deleted fails.
RequestWebhook ==
    /\ request.stage = "confirm"
    /\ IF webhook[request.message] = "deleted"
       THEN /\ request' = [request EXCEPT !.stage = "failed"]
            /\ UNCHANGED webhook
       ELSE /\ request' = [request EXCEPT !.stage = "done"]
            /\ webhook' = [webhook EXCEPT ![request.message] =
                              IF request.kind = "edit" THEN "edited" ELSE "deleted"]
    /\ UNCHANGED <<managerVars, deleted, hierarchyVars, listener, ctorVars>>
    /\ UNCHANGED <<_message_lifetime, _messages, _call_tasks, timers, now, born, last, ncalls>>

\* ------------------------------------ calls of util/channel_hierarchy.py
\* get_subchannels(channel)
CallGetSubchannels(channel) ==
    /\ traversal = NoTraversal
    /\ traversal' = [NoTraversal EXCEPT !.fn = "get_subchannels", !.channel = channel]
    /\ answer' = get_subchannels(server, channel)
    /\ UNCHANGED <<managerVars, deleted, ctorVars, messageVars, listener, server, generator, yielded>>

\* get_all_subchannels(channel, breadth_first=...): makes the generator,
\* none of whose code has run yet.
CallGetAllSubchannels(channel, breadth_first) ==
    /\ traversal = NoTraversal
    /\ traversal' = [NoTraversal EXCEPT !.fn = "get_all_subchannels", !.channel = channel,
                                        !.breadth_first = breadth_first]
    /\ generator' = NewGenerator(channel)
    /\ UNCHANGED <<managerVars, deleted, ctorVars, messageVars, listener, server, yielded, answer>>

\* is_subchannel(channel, parent):
\* "channel in get_all_subchannels(parent, breadth_first=True)".
CallIsSubchannel(channel, parent) ==
    /\ traversal = NoTraversal
    /\ traversal' = [fn |-> "is_subchannel", channel |-> channel, parent |-> parent,
                     breadth_first |-> TRUE]
    /\ generator' = NewGenerator(parent)
    /\ UNCHANGED <<managerVars, deleted, ctorVars, messageVars, listener, server, yielded, answer>>

\* The caller of get_all_subchannels takes the next element; when the
\* generator returns, the call has given the sequence of its elements.
Iterate(step) ==
    /\ generator' = [generator EXCEPT !.started = TRUE, !.frames = step.frames]
    /\ IF step.out = StopIteration
       THEN answer' = [list |-> yielded] /\ UNCHANGED yielded
       ELSE IF step.out \in {TypeError, RecursionError}
            THEN answer' = step.out /\ UNCHANGED yielded
            ELSE yielded' = Append(yielded, step.out.value) /\ UNCHANGED answer
    /\ UNCHANGED <<managerVars, deleted, ctorVars, messageVars, listener, server, traversal>>

DepthNext ==
    /\ traversal.fn = "get_all_subchannels"
    /\ ~traversal.breadth_first
    /\ answer = NoRet
    /\ Iterate(_get_all_subchannels_depth(server, generator))

BreadthNext ==
    /\ traversal.fn = "get_all_subchannels"
    /\ traversal.breadth_first
    /\ answer = NoRet
    /\ Iterate(_get_all_subchannels_breadth(server, generator))

\* The "in" of is_subchannel takes the next element and compares it: True
\* on the first equal element, False when the generator returns.
IsSubchannelNext ==
    /\ traversal.fn = "is_subchannel"
    /\ answer = NoRet
    /\ LET step == _get_all_subchannels_breadth(server, generator)
       IN  /\ generator' = [generator EXCEPT !.started = TRUE, !.frames = step.frames]
           /\ IF step.out = StopIteration
              THEN answer' = Returned(FALSE) /\ UNCHANGED yielded
              ELSE IF step.out \in {TypeError, RecursionError}
                   THEN answer' = step.out /\ UNCHANGED yielded
                   ELSE /\ yielded' = Append(yielded, step.out.value)
                        /\ answer' = IF step.out.value = traversal.channel
                                     THEN Returned(TRUE) ELSE NoRet
    /\ UNCHANGED <<managerVars, deleted, ctorVars, messageVars, listener, server, traversal>>

\* ----------------------------------------- Masks.handle_mask_messages
\* The messages that reach the listener: sent in the guild or in a DM, by a
\* bot or a member, with or without the "//" prefix and attachments, in a
\* text channel or in a thread whose parent the library may not know.
Incoming ==
    {[in_guild |-> in_guild, bot |-> bot, prefix |-> prefix, attachments |-> attachments,
      channel |-> channel, parent_known |-> parent_known, author |-> author] :
        in_guild \in BOOLEAN, bot \in BOOLEAN, prefix \in BOOLEAN, attachments \in 0..1,
        channel \in {TextChannel, Thread}, parent_known \in BOOLEAN, author \in Owners}

\* The task the listener runs in and the message its webhook sends.
ListenerTask == "t1"
Relayed == "m1"

\* A listener that lets only messages of bots pass.
IgnoresOnlyBots(message) == message.bot

\* "message.guild is None or message.author.bot or
\* message.content.startswith('//')"
Ignored(message) == ~message.in_guild \/ message.bot \/ message.prefix

\* app.mask: the Mask the application refers to.
MaskOf(app) == IF app.mask_id \in Masks THEN [id |-> app.mask_id] ELSE None

\* "non_thread_channel is None": the thread's parent is not known.
ParentMissing(message) == message.channel = Thread /\ ~message.parent_known

\* on_message: the filter at the head of the handler.
OnMessage(message) ==
    /\ listener.pc = "idle"
    /\ listener' = [pc |-> IF Ignored(message) THEN "done" ELSE "call",
                    message |-> message, steps |-> <<>>]
    /\ UNCHANGED <<managerVars, deleted, ctorVars, messageVars, hierarchyVars>>

\* "app = await self.application_manager.hierarchical(message.author, channel)"
ListenerResolve ==
    /\ listener.pc = "call"
    /\ pc[ListenerTask] = "idle"
    /\ Call(ListenerTask, "hierarchical", KeyArg(listener.message.author, listener.message.channel))

\* hierarchical has returned: no application, an application without mask
\* and a thread without parent end the handler.
ListenerResolved ==
    /\ listener.pc = "call"
    /\ pc[ListenerTask] = "done"
    /\ LET app == ret[ListenerTask]
           steps == Append(listener.steps, "hierarchical")
       IN  listener' =
             IF app = None \/ MaskOf(app) = None
             THEN [listener EXCEPT !.pc = "done", !.steps = steps]
             ELSE IF ParentMissing(listener.message)
                  THEN [listener EXCEPT !.pc = "done", !.steps = Append(steps, "complain")]
                  ELSE [listener EXCEPT !.pc = "send", !.steps = steps]
    /\ UNCHANGED <<managerVars, deleted, ctorVars, messageVars, hierarchyVars>>

\* "webhook = await self.webhook_pool.get(...)" and
\* "mask_message = await webhook.send(..., wait=True)", which Discord may
\* refuse.
ListenerSend(ok) ==
    /\ listener.pc = "send"
    /\ listener' = IF ok
                   THEN [listener EXCEPT !.pc = "push", !.steps = Append(@, "send")]
                   ELSE [listener EXCEPT !.pc = "done", !.steps = Append(@, "raise")]
    /\ UNCHANGED <<managerVars, deleted, ctorVars, messageVars, hierarchyVars>>

\* "self.mask_message_cache.push(mask_message, message.author)", then
\* "if len(message.attachments) > 0: return".
ListenerPush ==
    /\ listener.pc = "push"
    /\ PushBody(Relayed, listener.message.author)
    /\ listener' = [listener EXCEPT
                      !.pc = IF listener.message.attachments > 0 THEN "done" ELSE "delete",
                      !.steps = Append(@, "push")]
    /\ UNCHANGED <<managerVars, deleted, ctorVars, hierarchyVars, _message_lifetime, now, request, webhook>>

\* "await message.delete()": done, or NotFound (passed over), or Forbidden
\* (a complaint is sent to the channel).
ListenerDelete(outcome) ==
    /\ listener.pc = "delete"
    /\ listener' = [listener EXCEPT
                      !.pc = "done",
                      !.steps = IF outcome = "Forbidden"
                                THEN Append(Append(@, "delete"), "complain")
                                ELSE Append(@, "delete")]
    /\ UNCHANGED <<managerVars, deleted, ctorVars, messageVars, hierarchyVars>>

\* ------------------------------------------------------ the specifications
Next ==
    \E t \in Tasks :
        \/ CallFetchAll(t)
        \/ CallFetch(t)
        \/ CallGet(t)
        \/ CallMayFetch(t)
        \/ CallSet(t)
        \/ CallRemove(t)
        \/ CallHierarchical(t)
        \/ Get(t)
        \/ MayFetchGet(t)
        \/ FetchAcquire(t)
        \/ FetchRead(t)
        \/ FetchStore(t)
        \/ RemoveAcquire(t)
        \/ RemoveGet(t)
        \/ RemoveDelete(t)
        \/ SetNew(t)
        \/ SetStore(t)
        \/ FetchAllScan(t)
        \/ FetchAllClear(t)
        \/ FetchAllFill(t)

\* Concurrent callers.
Spec == Init /\ [][Next]_vars

\* The steps of one task inside a call: what the event loop runs when the
\* task is ready.
Runs(t) ==
    \/ Get(t)
    \/ MayFetchGet(t)
    \/ FetchAcquire(t)
    \/ FetchRead(t)
    \/ FetchStore(t)
    \/ RemoveAcquire(t)
    \/ RemoveGet(t)
    \/ RemoveDelete(t)
    \/ SetNew(t)
    \/ SetStore(t)
    \/ FetchAllScan(t)
    \/ FetchAllClear(t)
    \/ FetchAllFill(t)

\* Concurrent callers that start on an empty table.
InitLive == Init /\ store = {}

\* Concurrent callers on a loop that keeps running every task: a store call
\* that is awaited ends, and a task that waits for the lock gets it.
SpecLive == InitLive /\ [][Next]_vars /\ \A t \in Tasks : SF_vars(Runs(t))

\* A single caller.
SpecSeq == InitSeq /\ [][Next]_vars

\* One caller on one channel.
InitOne == active = {"t1"} /\ scope = {TextChannel} /\ InitCommon

\* The calls of one caller with writes that the database may refuse.
NextStoreFails ==
    \/ Next
    \/ \E t \in Tasks : RemoveDeleteFails(t) \/ SetNewFails(t)

SpecStoreFails == InitOne /\ [][NextStoreFails]_vars

\* Constructions of AppliedMaskManager and fetches on the instances.
InitManagers == active = {} /\ scope = {TextChannel} /\ InitCommon

NextManagers ==
    \/ Construct
    \/ \E t \in Tasks, i \in 1..MaxManagers :
          \/ InstanceFetchAcquire(t, i)
          \/ \E key \in Keys : InstanceFetchStore(t, i, key)

SpecManagers == InitManagers /\ [][NextManagers]_vars

\* The MessageCache of the cog, with or without a lifetime.
InitMessages ==
    /\ active = {}
    /\ scope = {}
    /\ InitManager
    /\ \E lifetime \in {None, [seconds |-> Lifetime]} : NewMessageCache(lifetime)
    /\ NoHierarchy
    /\ listener = NoMessage

Expire == \E timer \in timers : TimerFires(timer)

NextMessages ==
    \/ \E message \in WebhookMessages, owner \in Members : Push(message, owner)
    \/ \E message \in WebhookMessages : Pop(message)
    \/ \E message \in WebhookMessages : Lookup(message)
    \/ Expire
    \/ Tick
    \/ \E user \in Members, message \in WebhookMessages, kind \in {"edit", "delete"} :
          RequestCheck(user, message, kind)
    \/ RequestCancel
    \/ RequestWebhook

SpecMessages == InitMessages /\ [][NextMessages]_vars

\* The loop keeps running: time passes and due calls are run.
SpecMessagesLive == SpecMessages /\ WF_vars(Tick) /\ WF_vars(Expire)

\* The calls of one caller while masks get deleted.
NextMaskDelete ==
    \/ Next
    \/ \E mask \in Masks : MaskDelete(mask)

SpecMaskDelete == InitOne /\ [][NextMaskDelete]_vars

\* One message that reaches the listener of the cog.
InitListener ==
    /\ active = {ListenerTask}
    /\ scope = {TextChannel}
    /\ InitManager
    /\ \E lifetime \in {None, [seconds |-> Lifetime]} : NewMessageCache(lifetime)
    /\ NoHierarchy
    /\ listener = NoMessage

NextListener ==
    \/ \E message \in Incoming : OnMessage(message)
    \/ ListenerResolve
    \/ \E t \in Tasks : MayFetchGet(t) \/ FetchAcquire(t) \/ FetchRead(t) \/ FetchStore(t)
    \/ ListenerResolved
    \/ \E ok \in BOOLEAN : ListenerSend(ok)
    \/ ListenerPush
    \/ \E outcome \in {"deleted", "NotFound", "Forbidden"} : ListenerDelete(outcome)

SpecListener == InitListener /\ [][NextListener]_vars

\* One call of a function of util/channel_hierarchy.py on a guild.
InitHierarchy ==
    /\ active = {}
    /\ scope = {}
    /\ InitManager
    /\ NewMessageCache(None)
    /\ listener = NoMessage
    /\ server \in Servers
    /\ traversal = NoTraversal
    /\ generator = NewGenerator(0)
    /\ yielded = <<>>
    /\ answer = NoRet

NextHierarchy ==
    \/ \E channel \in Nodes : CallGetSubchannels(channel)
    \/ \E channel \in Nodes, breadth_first \in BOOLEAN :
          CallGetAllSubchannels(channel, breadth_first)
    \/ \E channel \in Nodes, parent \in Nodes : CallIsSubchannel(channel, parent)
    \/ DepthNext
    \/ BreadthNext
    \/ IsSubchannelNext

SpecHierarchy == InitHierarchy /\ [][NextHierarchy]_vars

TypeOK ==
    /\ store \subseteq Rows
    /\ DOMAIN _cache \subseteq Keys
    /\ \A k \in DOMAIN _cache : _cache[k] \in Rows \cup {None}
    /\ _lock \in Tasks \cup {Free}
    /\ nops \in 0..MaxOps

\* ------------------------------------------------ vocabulary of the claims
\* Task t has finished a call of the method (returned or raised).
Done(t, method) == pc[t] = "done" /\ op[t] = method

\* The binding the table holds for a task's owner on a channel, or None.
Binding(table, t, channel) == StoreGet(table, _AppliedMaskKey(arg[t].user, channel))

\* a lies above c in the channel tree (the guild is not a channel).
RECURSIVE IsAncestor(_, _)
IsAncestor(a, c) ==
    /\ c # Guild
    /\ Parent[c] # Guild
    /\ (Parent[c] = a \/ IsAncestor(a, Parent[c]))

\* ---------------------------------------------------------------------- C1
\* C1: when hierarchical(owner, X) is called while the table holds a binding
\* for the exact key (owner, X), it returns that binding, whatever its
\* recursive flag and whatever is bound on the ancestors of X.
C1_DirectBindingWins ==
    \A t \in Tasks :
        (Done(t, "hierarchical") /\ RowsAt(store0[t], ArgKey(t)) # {})
            => ret[t] \in RowsAt(store0[t], ArgKey(t))

\* A non-recursive direct binding was returned although the category above
\* carries a recursive binding to another mask.
C1_Witness ==
    \E t \in Tasks :
        /\ Done(t, "hierarchical")
        /\ arg[t].channel = TextChannel
        /\ ret[t] \in store0[t]
        /\ ret[t].channel_id = TextChannel
        /\ ~ret[t].recursive
        /\ \E up \in store0[t] :
              up.channel_id = Category /\ up.recursive /\ up.mask_id # ret[t].mask_id

\* ---------------------------------------------------------------------- C2
\* C2: with no direct binding, hierarchical returns the binding of the nearest
\* ancestor (the channel itself and the guild excluded) whose binding is
\* recursive, passing over ancestors that are unbound or bound
\* non-recursively, and None when no ancestor has a recursive binding.
C2_NearestRecursiveAncestor ==
    \A t \in Tasks :
        (Done(t, "hierarchical") /\ RowsAt(store0[t], ArgKey(t)) = {}) =>
            LET cascading == {row \in store0[t] :
                                /\ row.owner_id = arg[t].user
                                /\ IsAncestor(row.channel_id, arg[t].channel)
                                /\ row.recursive}
            IN  IF cascading = {}
                THEN ret[t] = None
                ELSE /\ ret[t] \in cascading
                     /\ \A other \in cascading \ {ret[t]} :
                           IsAncestor(other.channel_id, ret[t].channel_id)

\* The thread is unbound, channel and category both cascade: the channel's
\* binding, the nearer one, was returned.
C2_Witness ==
    \E t \in Tasks :
        /\ Done(t, "hierarchical")
        /\ arg[t].channel = Thread
        /\ Binding(store0[t], t, Thread) = None
        /\ Binding(store0[t], t, TextChannel) # None
        /\ Binding(store0[t], t, TextChannel).recursive
        /\ Binding(store0[t], t, Category) # None
        /\ Binding(store0[t], t, Category).recursive
        /\ Binding(store0[t], t, Category).mask_id # Binding(store0[t], t, TextChannel).mask_id
        /\ ret[t] = Binding(store0[t], t, TextChannel)

\* ---------------------------------------------------------------------- C3
\* The table of the claim: the category bound recursively, the channel bound
\* non-recursively, the thread unbound.
BlockedCascade(t) ==
    /\ Binding(store0[t], t, Category) # None
    /\ Binding(store0[t], t, Category).recursive
    /\ Binding(store0[t], t, TextChannel) # None
    /\ ~Binding(store0[t], t, TextChannel).recursive
    /\ Binding(store0[t], t, Thread) = None

\* C3 as claimed: a non-recursive binding on the channel blocks the cascade
\* from the category, so hierarchical on the thread returns None, while
\* hierarchical on the channel returns the channel's binding.
C3_NonRecursiveBlocksCascade ==
    \A t \in Tasks :
        (Done(t, "hierarchical") /\ BlockedCascade(t)) =>
            /\ arg[t].channel = Thread => ret[t] = None
            /\ arg[t].channel = TextChannel => ret[t] = Binding(store0[t], t, TextChannel)

\* C3 as amended: the non-recursive binding on the channel is passed over, so
\* hierarchical on the thread returns the category's recursive binding, while
\* hierarchical on the channel returns the channel's binding.
C3_NonRecursivePassedOver ==
    \A t \in Tasks :
        (Done(t, "hierarchical") /\ BlockedCascade(t)) =>
            /\ arg[t].channel = Thread => ret[t] = Binding(store0[t], t, Category)
            /\ arg[t].channel = TextChannel => ret[t] = Binding(store0[t], t, TextChannel)

\* hierarchical on the thread has returned under the table of the claim.
C3_Witness ==
    \E t \in Tasks :
        /\ Done(t, "hierarchical")
        /\ BlockedCascade(t)
        /\ arg[t].channel = Thread
        /\ ret[t] # None

\* ---------------------------------------------------------------------- C4
\* C4: when the only binding on a channel X and its ancestors is a
\* non-recursive one on an ancestor C, hierarchical(owner, X) returns None,
\* while hierarchical(owner, C) returns C's binding.
C4_NonRecursiveDoesNotCascade ==
    \A t \in Tasks : \A c \in Channels :
        LET onC == Binding(store0[t], t, c)
            x == arg[t].channel
        IN  (Done(t, "hierarchical") /\ onC # None /\ ~onC.recursive) =>
                /\ x = c => ret[t] = onC
                /\ ( /\ IsAncestor(c, x)
                     /\ \A d \in Channels \ {c} :
                           (d = x \/ IsAncestor(d, x)) => Binding(store0[t], t, d) = None )
                   => ret[t] = None

\* hierarchical on an unbound channel returned None under a category whose
\* only binding is non-recursive.
C4_Witness ==
    \E t \in Tasks :
        /\ Done(t, "hierarchical")
        /\ arg[t].channel = TextChannel
        /\ Binding(store0[t], t, TextChannel) = None
        /\ Binding(store0[t], t, Category) # None
        /\ ~Binding(store0[t], t, Category).recursive
        /\ ret[t] = None

\* ---------------------------------------------------------------------- C5
\* The cache entry of a key says what the table says: a cached AppliedMask is
\* the row the table holds, a cached None means the table holds no row.
CacheAgrees(key) ==
    key \in DOMAIN _cache =>
        IF _cache[key] = None THEN RowsAt(store, key) = {} ELSE RowsAt(store, key) = {_cache[key]}

Writes == {"set", "remove"}

\* No fetch_all takes part: none is running, none was the call before.
NoFetchAll == \A t \in Tasks : op[t] # "fetch_all" /\ prev[t].op # "fetch_all"

\* C5: under any interleaving of set, remove, fetch, get, may_fetch and
\* hierarchical calls, whenever a set or remove call for a key has returned
\* and no other write to that key is in progress, the cache entry of the key
\* agrees with the table.
C5_CacheAgreesAfterWrite ==
    \A key \in Keys :
        ( /\ NoFetchAll
          /\ \E t \in Tasks : op[t] \in Writes /\ ArgKey(t) = key /\ pc[t] = "done"
          /\ \A t \in Tasks : (op[t] \in Writes /\ ArgKey(t) = key) => pc[t] = "done" )
        => CacheAgrees(key)

\* ---------------------------------------------------------------------- C6
\* C6: set(maskA, owner, channel, True) followed by set(maskB, owner, channel,
\* False) leaves exactly one AppliedMask for the key, bound to maskB with
\* recursive=False, in the table and as the cache entry, and no maskA binding
\* in either.
C6_SetOverwrites ==
    \A t \in Tasks :
        ( /\ Done(t, "set")
          /\ prev[t].op = "set"
          /\ prev[t].arg.user = arg[t].user
          /\ prev[t].arg.channel = arg[t].channel
          /\ prev[t].arg.recursive /\ ~arg[t].recursive
          /\ prev[t].arg.mask # arg[t].mask
          /\ prev[t].ret \in Rows )
        => LET key == ArgKey(t)
               maskB == AppliedMask(arg[t].mask, arg[t].channel, Guild, arg[t].user, FALSE)
           IN  /\ ret[t] = maskB
               /\ RowsAt(store, key) = {maskB}
               /\ key \in DOMAIN _cache
               /\ _cache[key] = maskB
               /\ \A row \in RowsAt(store, key) : row.mask_id # prev[t].arg.mask

\* The second of two such set calls has returned.
C6_Witness ==
    \E t \in Tasks :
        /\ Done(t, "set")
        /\ prev[t].op = "set"
        /\ prev[t].arg.channel = arg[t].channel
        /\ prev[t].arg.mask = 1 /\ prev[t].arg.recursive
        /\ arg[t].mask = 2 /\ ~arg[t].recursive
        /\ prev[t].ret \in Rows
        /\ ret[t] \in Rows

\* ---------------------------------------------------------------------- C7
\* C7: in every reachable state, whatever set and remove calls ran or are
\* running, the table holds at most one AppliedMask per (owner, channel).
C7_SingleBinding ==
    \A key \in Keys : Cardinality(RowsAt(store, key)) <= 1

\* Two set calls for one key overlapped and the second INSERT was refused.
C7_Witness ==
    \E t1 \in Tasks, t2 \in Tasks :
        /\ Done(t1, "set") /\ ret[t1] = IntegrityError
        /\ op[t2] = "set" /\ ArgKey(t2) = ArgKey(t1)
        /\ RowsAt(store, ArgKey(t1)) # {}

\* ---------------------------------------------------------------------- C8
\* C8: after may_fetch(k) returned v and no fetch_all, set or remove was
\* called since, get(k) returns v and does not raise the not-cached KeyError.
C8_GetAfterMayFetch ==
    \A t \in Tasks :
        (Done(t, "get") /\ warm[ArgKey(t)] # NoRet) => ret[t] = warm[ArgKey(t)]

\* get returned the confirmed negative that a may_fetch of a key unknown to
\* the cache had just fetched.
C8_Witness ==
    \E t \in Tasks :
        /\ Done(t, "get")
        /\ prev[t].op = "may_fetch"
        /\ prev[t].arg = arg[t]
        /\ warm[ArgKey(t)] = None
        /\ ret[t] = None
        /\ _cache # EmptyCache

\* ---------------------------------------------------------------------- C9
\* C9 as claimed: whenever remove returns its AppliedMask, the table holds no
\* row for the key and the cache entry of the key is the confirmed negative,
\* whether the key was cached or unknown before the call.
C9_RemoveMarksNegative ==
    \A t \in Tasks :
        (Done(t, "remove") /\ ret[t] \in Rows) =>
            /\ RowsAt(store, ArgKey(t)) = {}
            /\ ArgKey(t) \in DOMAIN _cache
            /\ _cache[ArgKey(t)] = None

\* C9 as amended: whenever remove returns its AppliedMask, the table holds no
\* row for the key; the cache entry of the key is the confirmed negative when
\* the key was cached before the call, and the key is still unknown to the
\* cache when it was unknown before the call.
C9_RemoveNegativeIfCached ==
    \A t \in Tasks :
        (Done(t, "remove") /\ ret[t] \in Rows) =>
            /\ RowsAt(store, ArgKey(t)) = {}
            /\ ArgKey(t) \in DOMAIN cache0[t] =>
                  (ArgKey(t) \in DOMAIN _cache /\ _cache[ArgKey(t)] = None)
            /\ ArgKey(t) \notin DOMAIN cache0[t] => ArgKey(t) \notin DOMAIN _cache

\* remove returned the binding of a key the cache did not know.
C9_Witness ==
    \E t \in Tasks :
        /\ Done(t, "remove")
        /\ ret[t] \in Rows
        /\ ArgKey(t) \notin DOMAIN cache0[t]
        /\ ArgKey(t) \notin DOMAIN _cache

\* --------------------------------------------------------------------- C10
\* C10: remove on a key with no binding in cache or table raises KeyError on
\* every call, also after fetch_all warmed the cache with other keys, and
\* leaves the table and every other cache entry unchanged.
C10_RemoveAbsentRaises ==
    \A t \in Tasks :
        LET key == ArgKey(t)
        IN  ( /\ Done(t, "remove")
              /\ RowsAt(store0[t], key) = {}
              /\ key \in DOMAIN cache0[t] => cache0[t][key] = None )
            => /\ ret[t] = KeyError
               /\ store = store0[t]
               /\ \A other \in Keys \ {key} :
                     /\ other \in DOMAIN _cache <=> other \in DOMAIN cache0[t]
                     /\ other \in DOMAIN _cache => _cache[other] = cache0[t][other]

\* remove raised right after a fetch_all that cached bindings of other keys.
C10_Witness ==
    \E t \in Tasks :
        /\ Done(t, "remove")
        /\ ret[t] = KeyError
        /\ prev[t].op = "fetch_all"
        /\ prev[t].ret.list # {}
        /\ ArgKey(t) \notin DOMAIN cache0[t]
        /\ DOMAIN cache0[t] # {}

\* --------------------------------------------------------------------- C11
\* Both tasks made remove their first call, for one key, while the table
\* held a row for it, and both calls have ended.
TwoRemovesOverlapped(key) ==
    \A t \in Tasks :
        /\ Done(t, "remove")
        /\ ArgKey(t) = key
        /\ prev[t] = NoOp
        /\ RowsAt(store0[t], key) # {}

\* C11: when two remove calls for one key run concurrently against a table
\* that holds one row for the key, exactly one of them returns the deleted
\* AppliedMask and the other raises KeyError, whether the key is cached or
\* unknown to the cache.
C11_OneRemoveSucceeds ==
    \A key \in Keys :
        TwoRemovesOverlapped(key) =>
            \E winner \in Tasks :
                /\ ret[winner] \in RowsAt(store0[winner], key)
                /\ \A loser \in Tasks \ {winner} : ret[loser] = KeyError
                /\ RowsAt(store, key) = {}

\* Two removes of a key the cache did not know have both ended.
C11_Witness ==
    \E key \in Keys :
        /\ TwoRemovesOverlapped(key)
        /\ \A t \in Tasks : key \notin DOMAIN cache0[t]
        /\ \E t \in Tasks : ret[t] = KeyError

\* --------------------------------------------------------------------- C12
\* The positions from which the next step of a call is a store access: the
\* reads of fetch and remove, the delete of remove, the insert of set, the
\* scan of fetch_all.
StoreAccessPcs == {"fetch_read", "rm_get", "rm_delete", "set_new", "fa_scan"}

\* C12: every store access of a manager call is made while the call holds
\* the manager's lock.
C12_StoreAccessUnderLock ==
    \A t \in Tasks : pc[t] \in StoreAccessPcs => _lock = t

\* --------------------------------------------------------------------- C13
\* The positions from which the next step of a call reads or writes the cache.
CacheAccessPcs == {"get", "mf_get", "fetch_store", "rm_lock", "set_store", "fa_lock", "fa_fill"}

\* Task t is between the clear and the end of the repopulation of fetch_all.
Repopulating(t) == pc[t] = "fa_fill"

\* C13: between the clear of fetch_all and the end of its repopulation no
\* other call reads or writes the cache: no step taken from a cache-accessing
\* position belongs to another task, and the cache changes by nothing but the
\* repopulation.
C13_FetchAllExcludesOthers ==
    [][ \A t \in Tasks : Repopulating(t) =>
            /\ \A u \in Tasks \ {t} : pc'[u] # pc[u] => pc[u] \notin CacheAccessPcs
            /\ _cache' # _cache => ~Repopulating(t)' ]_vars

\* A get is waiting while fetch_all has cleared the cache and the table has rows.
C13_Witness ==
    \E t \in Tasks, u \in Tasks :
        /\ Repopulating(t)
        /\ pc[u] = "get"
        /\ _cache = EmptyCache
        /\ frame[t].scanned # {}
        /\ cache0[u] # EmptyCache

\* --------------------------------------------------------------------- C14
\* C14: when fetch_all returns, every AppliedMask it placed in the cache is
\* a row the table holds at that moment, also when set or remove calls run
\* concurrently with it.
C14_FetchAllCachesLiveRows ==
    [][ \A t \in Tasks :
            (pc[t] = "fa_fill" /\ pc'[t] = "done") =>
                \A key \in DOMAIN _cache' : _cache'[key] \in store' ]_vars

\* --------------------------------------------------------------------- C15
\* C15: after a fetch_all that ran alone, the cached keys are exactly the keys
\* of the rows of the table, each cached as its row; entries cached before
\* for keys without a row, confirmed negatives included, are unknown again;
\* and the returned list holds exactly the rows of the table.
C15_FetchAllFlushes ==
    \A t \in Tasks :
        Done(t, "fetch_all") =>
            /\ DOMAIN _cache = {KeyOf(row) : row \in store}
            /\ \A key \in DOMAIN _cache : RowsAt(store, key) = {_cache[key]}
            /\ ret[t] = [list |-> store]
            /\ store = store0[t]

\* fetch_all has dropped a confirmed negative and cached the rows of the table.
C15_Witness ==
    \E t \in Tasks :
        /\ Done(t, "fetch_all")
        /\ store # {}
        /\ \E key \in DOMAIN cache0[t] : cache0[t][key] = None /\ key \notin DOMAIN _cache

\* --------------------------------------------------------------------- C16
\* C16: a cached key becomes unknown again by nothing but the clear of a
\* fetch_all: every other step of every call keeps the cached keys cached
\* (as an AppliedMask or as None), so get on them keeps not raising.
C16_OnlyFetchAllForgets ==
    [][ (\E key \in DOMAIN _cache : key \notin DOMAIN _cache') =>
            \E t \in Tasks : op[t] = "fetch_all" /\ pc[t] = "fa_lock" /\ pc'[t] = "fa_fill" ]_vars

\* A remove has turned a cached AppliedMask into the confirmed negative.
C16_Witness ==
    \E t \in Tasks :
        /\ Done(t, "remove")
        /\ ArgKey(t) \in DOMAIN cache0[t]
        /\ cache0[t][ArgKey(t)] \in Rows
        /\ ArgKey(t) \in DOMAIN _cache
        /\ _cache[ArgKey(t)] = None

\* --------------------------------------------------------------------- C17
\* C17: get never reads the store and never changes the cache: it returns the
\* cached value (an AppliedMask, or None for a confirmed negative) and raises
\* KeyError exactly when the key is unknown to the cache.
C17_GetIsCacheOnly ==
    \A t \in Tasks :
        Done(t, "get") =>
            /\ frame[t].reads = 0
            /\ _cache = cache0[t]
            /\ store = store0[t]
            /\ ret[t] = IF ArgKey(t) \in DOMAIN cache0[t] THEN cache0[t][ArgKey(t)] ELSE KeyError

\* get raised KeyError for an unknown key although the table holds its row.
C17_Witness ==
    \E t \in Tasks :
        /\ Done(t, "get")
        /\ ret[t] = KeyError
        /\ RowsAt(store, ArgKey(t)) # {}
        /\ _cache # EmptyCache

\* --------------------------------------------------------------------- C18
\* C18: fetch reads the store for the exact key on every call, also when the
\* key is already cached, replaces the cache entry of the key with what the
\* store returned (the row, or None), returns that value and changes no other
\* cache entry.
C18_FetchReadsThrough ==
    \A t \in Tasks :
        Done(t, "fetch") =>
            /\ frame[t].reads = 1
            /\ ret[t] = StoreGet(store0[t], ArgKey(t))
            /\ _cache = _store(cache0[t], ret[t], ArgKey(t))
            /\ store = store0[t]

\* fetch has read the store for a key that was cached already, next to
\* other cached keys.
C18_Witness ==
    \E t \in Tasks :
        /\ Done(t, "fetch")
        /\ ArgKey(t) \in DOMAIN cache0[t]
        /\ DOMAIN cache0[t] # {ArgKey(t)}
        /\ frame[t].reads = 1

\* --------------------------------------------------------------------- C19
\* C19: may_fetch reads the store only when the key is unknown to the cache:
\* for a cached key, a confirmed negative included, it returns the cached
\* value without a store access.
C19_MayFetchReadsOnlyUnknown ==
    \A t \in Tasks :
        Done(t, "may_fetch") =>
            IF ArgKey(t) \in DOMAIN cache0[t]
            THEN frame[t].reads = 0 /\ ret[t] = cache0[t][ArgKey(t)]
            ELSE frame[t].reads = 1

\* may_fetch returned a cached confirmed negative without a store read.
C19_Witness ==
    \E t \in Tasks :
        /\ Done(t, "may_fetch")
        /\ ArgKey(t) \in DOMAIN cache0[t]
        /\ cache0[t][ArgKey(t)] = None
        /\ ret[t] = None
        /\ frame[t].reads = 0

\* --------------------------------------------------------------------- C20
\* C20: in set and remove the store write completes before the cache entry of
\* the key is changed: at no point of a running or finished call does the
\* cache hold for the key a value, changed by the call, that the table does
\* not match.
C20_StoreWrittenBeforeCache ==
    \A t \in Tasks :
        LET key == ArgKey(t)
            changed == /\ key \in DOMAIN _cache
                       /\ key \in DOMAIN cache0[t] => _cache[key] # cache0[t][key]
        IN  (op[t] \in Writes /\ changed) => CacheAgrees(key)

\* --------------------------------------------------------------------- C21
\* C21: when the store write inside set (the insert) or remove (the delete)
\* fails, the store error reaches the caller, the lock is released and the
\* cache is exactly as it was before the call.
C21_FailedWriteLeavesCache ==
    \A t \in Tasks :
        (pc[t] = "done" /\ op[t] \in Writes /\ ret[t] = StoreError) =>
            /\ _lock = Free
            /\ _cache = cache0[t]

\* --------------------------------------------------------------------- C22
Lookups == {"get", "may_fetch", "hierarchical"}

\* C22: after a Mask is deleted no AppliedMask referencing it remains in the
\* store, and no get, may_fetch or hierarchical call made after the deletion
\* returns an application bound to the deleted mask.
C22_NoApplicationOfDeletedMask ==
    /\ \A row \in store : row.mask_id \notin deleted
    /\ \A t \in Tasks :
          (pc[t] = "done" /\ op[t] \in Lookups /\ ret[t] \in Rows)
              => ret[t].mask_id \notin frame[t].gone

\* --------------------------------------------------------------------- C23
\* C23: constructing an AppliedMaskManager again does not fail: every
\* construction yields one more instance, each one after the first is logged,
\* and the instances have a cache and a lock of their own: a step on one
\* instance changes no other instance.
C23_EveryConstructionYieldsAnInstance ==
    [][ /\ Len(managers') = __object_counts'
        /\ critical' = (IF __object_counts' > 1 THEN __object_counts' - 1 ELSE 0)
        /\ \A i \in DOMAIN managers : managers'[i] # managers[i] =>
              \A j \in DOMAIN managers \ {i} : managers'[j] = managers[j] ]_vars

\* Two instances exist, the second construction was logged, and two tasks
\* hold the two locks at the same time: the instances do not exclude each
\* other; one cache has an entry the other has not.
C23_Witness ==
    /\ Len(managers) = 2
    /\ critical = 1
    /\ managers[1]._lock = "t1"
    /\ managers[2]._lock = "t2"
    /\ managers[1]._cache # managers[2]._cache

\* ------------------------------------------- vocabulary, MessageCache
\* The step is a MessageCache call or a timer callback.
CacheStep == last' # last

\* The message of the last call was not cached when the call began.
WasAbsent == last.message \notin DOMAIN last.messages0

\* Message map, timer map and scheduled calls are as the last call found them.
AsFound ==
    /\ _messages = last.messages0
    /\ _call_tasks = last.call_tasks0
    /\ timers = last.timers0

\* --------------------------------------------------------------------- C24
\* C24: after push(h, member) the cache maps h to member; the entry of a
\* cached h changes only when h is popped or its removal timer runs; lookup
\* of a cached h returns its member; pop(h) returns the member and removes
\* h, and lookup of an h that is not cached raises KeyError.
C24_PushLookupPop ==
    [][ /\ (CacheStep /\ last'.op = "push" /\ last'.result = None) =>
              /\ last'.message \in DOMAIN _messages'
              /\ _messages'[last'.message] = last'.owner
        /\ \A h \in DOMAIN _messages :
              (h \notin DOMAIN _messages' \/ _messages'[h] # _messages[h]) =>
                  CacheStep /\ last'.op \in {"pop", "timer"} /\ last'.message = h
        /\ (CacheStep /\ last'.op \in {"lookup", "pop"}) =>
              /\ last'.result = IF last'.message \in DOMAIN _messages
                                THEN Returned(_messages[last'.message]) ELSE KeyError
              /\ last'.message \notin DOMAIN _messages' \/ last'.op = "lookup" ]_vars

\* h was pushed, pop(h) returned its member, and the lookup that followed
\* raised KeyError.
C24_Witness ==
    /\ last.op = "lookup"
    /\ last.result = KeyError
    /\ last.before.op = "pop"
    /\ last.before.message = last.message
    /\ \E member \in Members : last.before.result = Returned(member)

\* --------------------------------------------------------------------- C25
\* C25: push on a message that is already cached raises RuntimeError and
\* changes nothing: the message keeps its first author and no further timer
\* is scheduled.
C25_DuplicatePushRejected ==
    (last.op = "push" /\ ~WasAbsent) =>
        /\ last.result = RuntimeError
        /\ AsFound

\* A push with another author was refused while the timer of the first push
\* is pending.
C25_Witness ==
    /\ last.op = "push"
    /\ last.result = RuntimeError
    /\ last.message \in DOMAIN _messages
    /\ _messages[last.message] # last.owner
    /\ \E timer \in timers : timer.message = last.message
    /\ Cardinality(timers) = 1

\* --------------------------------------------------------------------- C26
\* C26: with a lifetime configured every cached message is removed in the
\* end, its own timer being due when the lifetime is over; with no lifetime
\* a message leaves the cache only by an explicit pop.
C26_EntriesExpire ==
    /\ \A h \in WebhookMessages :
          (_message_lifetime # None /\ h \in DOMAIN _messages) ~> (h \notin DOMAIN _messages)
    /\ [](\A h \in DOMAIN _messages :
            _message_lifetime # None =>
                /\ now <= born[h] + Lifetime
                /\ \E timer \in timers : timer.message = h /\ timer.when = born[h] + Lifetime)
    /\ [][ _message_lifetime = None =>
             \A h \in DOMAIN _messages :
                 h \notin DOMAIN _messages' =>
                     CacheStep /\ last'.op = "pop" /\ last'.message = h ]_vars

\* A timer has removed a message that nobody popped, when its lifetime was
\* over.
C26_Witness ==
    /\ last.op = "timer"
    /\ ~WasAbsent
    /\ last.message \notin DOMAIN _messages
    /\ last.before.op = "push"
    /\ now = Lifetime

\* --------------------------------------------------------------------- C27
\* C27: pop cancels the timer of the push it undoes: no message is removed
\* by a timer before its own lifetime is over.
C27_PopCancelsTimer ==
    [][ \A h \in DOMAIN _messages :
           (h \notin DOMAIN _messages' /\ last'.op = "timer" /\ CacheStep)
               => now >= born[h] + Lifetime ]_vars

\* --------------------------------------------------------------------- C28
\* C28: a timer that runs for a message an explicit pop has removed does
\* nothing: it raises no error and changes neither map.
C28_LateTimerIsNoOp ==
    (/\ last.op = "timer"
     /\ WasAbsent
     /\ last.before.op = "pop"
     /\ last.before.message = last.message) =>
        /\ last.result # KeyError
        /\ _messages = last.messages0
        /\ _call_tasks = last.call_tasks0

\* --------------------------------------------------------------------- C29
\* C29: pop and lookup of a message that is not cached raise KeyError and
\* leave every entry and timer as it was; lookup never changes the cache.
C29_AbsentRaisesKeyError ==
    /\ (last.op \in {"pop", "lookup"} /\ WasAbsent) => (last.result = KeyError /\ AsFound)
    /\ last.op = "lookup" => AsFound

\* pop raised KeyError for a message that had expired, while another message
\* and its timer are still there.
C29_Witness ==
    /\ last.op = "pop"
    /\ last.result = KeyError
    /\ last.before.op = "timer"
    /\ last.before.message = last.message
    /\ last.before.result # KeyError
    /\ DOMAIN _messages # {}
    /\ timers # {}

\* --------------------------------------------------------------------- C30
\* A step of an edit or delete request.
RequestStep == request' # request \/ (ncalls' # ncalls /\ ~CacheStep)

\* C30: a request gets past the check only if the cache held the message and
\* the requesting user is its recorded author; only a request that got past
\* the check changes a message, and only its own; a request for an untracked
\* or expired message or from another user is rejected and changes neither
\* the messages nor the MessageCache.
C30_OnlyTheAuthorEdits ==
    [][ /\ request'.stage \in {"confirm", "cancelled", "done", "failed"} =>
              request'.tracked /\ request'.author = request'.user
        /\ request'.stage = "rejected" =>
              ~(request'.tracked /\ request'.author = request'.user)
        /\ webhook' # webhook =>
              /\ request.stage = "confirm"
              /\ request'.stage = "done"
              /\ \A message \in WebhookMessages \ {request.message} :
                    webhook'[message] = webhook[message]
        /\ (RequestStep /\ request'.stage = "rejected") =>
              UNCHANGED <<_messages, _call_tasks, timers, webhook>> ]_vars

\* The author has edited the message; the same request from another member
\* was rejected.
C30_Witness ==
    /\ request.stage = "rejected"
    /\ request.tracked
    /\ request.author # request.user
    /\ webhook[request.message] = "edited"

\* --------------------------------------------------------------------- C35
\* C35: once fetch_all has completed and no write has happened since, a
\* hierarchical call never reads the store: every may_fetch it makes is
\* answered from the cache, also for keys that have no row.
C35_WarmCacheNeverFetches ==
    \A t \in Tasks :
        (/\ Done(t, "hierarchical")
         /\ prev[t] # NoOp
         /\ prev[t].op = "fetch_all") => frame[t].reads = 0

\* --------------------------------------------------------------------- C37
\* Both tasks have finished a set for the key, each as its first call.
TwoSetsOverlapped(key) ==
    \A t \in Tasks : Done(t, "set") /\ ArgKey(t) = key /\ prev[t] = NoOp

\* C37: when two set calls for one key run concurrently, both complete
\* without a store error and the binding of one of them is what the store
\* and the cache hold in the end.
C37_ConcurrentSetsBothSucceed ==
    \A key \in Keys :
        TwoSetsOverlapped(key) =>
            /\ \A t \in Tasks : ret[t] \in Rows
            /\ \E t \in Tasks : RowsAt(store, key) = {ret[t]}
            /\ CacheAgrees(key)

\* --------------------------------------------------------------------- C38
\* What hierarchical gives on one table: the binding of the channel itself,
\* or else the binding of the nearest ancestor whose binding is recursive.
RECURSIVE FirstCascading(_, _, _)
FirstCascading(table, t, walk) ==
    IF walk = <<>> THEN None
    ELSE IF PassedOver(Binding(table, t, Head(walk)))
         THEN FirstCascading(table, t, Tail(walk))
         ELSE Binding(table, t, Head(walk))

Resolution(table, t) ==
    IF DirectWins(Binding(table, t, arg[t].channel))
    THEN Binding(table, t, arg[t].channel)
    ELSE FirstCascading(table, t, get_all_parents(arg[t].channel, FALSE, FALSE))

\* The table was the same during the whole of t's hierarchical call: t has
\* written nothing before, and the only other writer u is a set whose insert
\* is done (the row it made was not in the table when u began) and was
\* already in the table when t's call began.
TableStoodStill(t, u) ==
    /\ t # u
    /\ prev[t] = NoOp \/ prev[t].op \notin Writes
    /\ op[u] = "set" /\ pc[u] = "set_store"
    /\ \E row \in RowsAt(store, ArgKey(u)) : row \notin store0[u] /\ row \in store0[t]
    /\ store0[t] = store

\* C38: the value hierarchical returns is the resolution of a table that
\* existed between the call's start and its return, also when set and
\* remove calls interleave with its lookups; here for a table that did not
\* change during the call.
C38_ResolvesSomeStoreState ==
    \A t, u \in Tasks :
        (Done(t, "hierarchical") /\ TableStoodStill(t, u)) =>
            ret[t] = Resolution(store, t)

\* --------------------------------------------------------------------- C36
\* The places where a task is about to take the lock.
AcquirePcs == {"get", "mf_get", "fetch_lock", "rm_lock", "fa_lock", "set_store"}

\* The task is inside a call.
Busy(t) == pc[t] \notin {"idle", "done"}

\* C36: no operation asks for the lock while it holds it, the lock is
\* released on every way out of a call, and so every call of every task
\* returns or raises in the end.
C36_EveryCallReturns ==
    /\ [](\A t \in Tasks : (pc[t] \in AcquirePcs \/ ~Busy(t)) => _lock # t)
    /\ \A t \in Tasks : Busy(t) ~> pc[t] = "done"

\* A remove has raised KeyError from inside the lock (after its store read)
\* and the call of the other task, which needs the lock too, has returned.
C36_Witness ==
    \E t, u \in Tasks :
        /\ t # u
        /\ Done(u, "remove") /\ ret[u] = KeyError /\ frame[u].reads = 1
        /\ Done(t, "fetch")

\* ---------------------------------------- the channel tree of the claims
\* The parent of a channel in the hierarchy
\* Guild > CategoryChannel > channel > Thread (0: it has none).
ParentOf(g, n) ==
    IF n \in DOMAIN g.parent_id THEN g.parent_id[n]
    ELSE IF n \in DOMAIN g.category_id
         THEN IF g.category_id[n] # 0 THEN g.category_id[n] ELSE Guild
         ELSE 0

RECURSIVE IsBelow(_, _, _)
IsBelow(g, n, root) ==
    /\ ParentOf(g, n) # 0
    /\ (ParentOf(g, n) = root \/ IsBelow(g, ParentOf(g, n), root))

Descendants(g, root) == {n \in Nodes : IsBelow(g, n, root)}

\* The direct children in their stored order.
Children(g, root) == SelectSeq(g.channels \o g.threads, LAMBDA n : ParentOf(g, n) = root)

\* Pre-order: each child, followed at once by its own descendants.
RECURSIVE PreOrder(_, _)
RECURSIVE PreOrderEach(_, _)
PreOrderEach(g, children) ==
    IF children = <<>> THEN <<>>
    ELSE <<Head(children)>> \o PreOrder(g, Head(children)) \o PreOrderEach(g, Tail(children))

PreOrder(g, root) == PreOrderEach(g, Children(g, root))

KnownType(n) == TypeOf[n] \in DOMAIN _SUBCHANNEL_LUT

Elements(seq) == {seq[i] : i \in DOMAIN seq}

\* --------------------------------------------------------------------- C31
\* C31: get_all_subchannels(node) in depth-first mode yields every direct
\* and indirect descendant of node exactly once, in pre-order with the
\* children in their stored order, and then terminates.
C31_DepthFirstPreOrder ==
    ( /\ traversal.fn = "get_all_subchannels"
      /\ ~traversal.breadth_first
      /\ KnownType(traversal.channel) ) =>
        /\ answer # RecursionError
        /\ answer # NoRet => answer = [list |-> PreOrder(server, traversal.channel)]

\* --------------------------------------------------------------------- C32
\* C32: get_all_subchannels(node, breadth_first=True) never yields a node
\* twice, terminates, and has then yielded every direct and indirect
\* descendant of node exactly once.
C32_BreadthFirstEachOnce ==
    ( /\ traversal.fn = "get_all_subchannels"
      /\ traversal.breadth_first
      /\ KnownType(traversal.channel) ) =>
        /\ \A i, k \in DOMAIN yielded : i # k => yielded[i] # yielded[k]
        /\ answer # RecursionError
        /\ answer # NoRet =>
              /\ answer = [list |-> yielded]
              /\ Elements(yielded) = Descendants(server, traversal.channel)

\* --------------------------------------------------------------------- C33
\* C33: is_subchannel(channel, parent) terminates and returns True exactly
\* when channel is a direct or indirect descendant of parent.
C33_IsSubchannelDecides ==
    ( /\ traversal.fn = "is_subchannel"
      /\ KnownType(traversal.parent) ) =>
        /\ answer # RecursionError
        /\ answer # NoRet =>
              answer = Returned(IsBelow(server, traversal.channel, traversal.parent))

\* --------------------------------------------------------------------- C34
\* C34: get_subchannels(node) returns the direct children of a guild,
\* category, text channel or forum channel, an empty sequence for a voice
\* channel, stage channel or thread, and raises TypeError exactly when the
\* type of node is none of these.
C34_GetSubchannelsByKind ==
    traversal.fn = "get_subchannels" =>
        answer = CASE TypeOf[traversal.channel] \in
                        {"Guild", "CategoryChannel", "TextChannel", "ForumChannel"} ->
                            [list |-> Children(server, traversal.channel)]
                   [] TypeOf[traversal.channel] \in {"VoiceChannel", "StageChannel", "Thread"} ->
                            [list |-> <<>>]
                   [] OTHER -> TypeError

\* --------------------------------------------------------------------- C39
\* Step a comes before step b wherever b is among the steps.
Before(steps, a, b) ==
    \A i \in DOMAIN steps : steps[i] = b => \E k \in 1..(i - 1) : steps[k] = a

\* C39: a message sent in a DM, by a bot or starting with "//" is never
\* relayed or deleted; for every other message hierarchical comes first,
\* then the webhook send, then the push of the relayed message with the
\* original author, then the deletion of the original; the original is not
\* deleted when there is no application, no mask or an attachment.
C39_ListenerOrder ==
    listener.pc # "idle" =>
        LET message == listener.message
            steps == listener.steps
        IN  /\ (~message.in_guild \/ message.bot \/ message.prefix) =>
                  /\ steps = <<>>
                  /\ pc[ListenerTask] = "idle"
                  /\ Relayed \notin DOMAIN _messages
            /\ Before(steps, "hierarchical", "send")
            /\ Before(steps, "send", "push")
            /\ Before(steps, "push", "delete")
            /\ \A i, k \in DOMAIN steps : i # k => steps[i] # steps[k]
            /\ "push" \in Elements(steps) =>
                  /\ Relayed \in DOMAIN _messages
                  /\ _messages[Relayed] = message.author
            /\ "delete" \in Elements(steps) =>
                  /\ ret[ListenerTask] \in Rows
                  /\ ret[ListenerTask].mask_id \in Masks
                  /\ message.attachments = 0

\* A message went the whole way: resolved, relayed, pushed, deleted.
C39_Witness ==
    /\ listener.pc = "done"
    /\ listener.steps = <<"hierarchical", "send", "push", "delete">>

====
